---- MODULE Spec2Model ----
(***************************************************************************)
(* Model of the personal finance tracker (src/casinillo_mpft_8.py): the    *)
(* record store with its trash bin, the JSON backing file, and the menus   *)
(* that drive them.                                                        *)
(*                                                                         *)
(* Text that the program parses or compares character by character (ISO    *)
(* dates, MM-DD-YYYY input, due dates) is a sequence of character codes:   *)
(* a digit is its value, Dash is '-'.  A date object is <<year, month,     *)
(* day>>.  Python's None is the one-element sequence None, no text.  A JSON *)
(* object (a dict) is a function whose DOMAIN is the set of keys present.  *)
(***************************************************************************)
EXTENDS Integers, Sequences, FiniteSets, TLC

VARIABLES plans, trash_bin, file, pc, last, undo, faults,
          cwd_files, shown, record_dicts, net, totals

\* what the tracker's menus do not touch: the export files, the lines of the
\* due-date listing, and the argument and results of finance/summary.py
side == <<cwd_files, shown, record_dicts, net, totals>>

vars == <<plans, trash_bin, file, pc, last, undo, faults, side>>

(* ---------------------------------------------------------------- bounds *)

\* add is offered only while plans and trash_bin hold fewer records than this
MaxRecords == 3
\* the backing file found at first start holds at most this many items
MaxFileItems == 2
\* the writes of the backing file that fail, over all runs of the program
MaxFaults == 1

(* ------------------------------------------------------------- text/date *)

Dash == 10
None == <<11>>

Range(s) == {s[k] : k \in 1..Len(s)}

IsDigit(c) == c \in 0..9

IsLeap(y) == (y % 4 = 0 /\ y % 100 # 0) \/ y % 400 = 0

DaysInMonth(y, m) ==
    IF m \in {4, 6, 9, 11} THEN 30
    ELSE IF m = 2 THEN (IF IsLeap(y) THEN 29 ELSE 28)
    ELSE 31

IsDate(y, m, d) == y \in 1..9999 /\ m \in 1..12 /\ d \in 1..DaysInMonth(y, m)

\* the date written day first: DD-MM-YYYY
isoformat_day_first(date) ==
    LET y == date[1]
        m == date[2]
        d == date[3]
    IN  << d \div 10, d % 10, Dash, m \div 10, m % 10, Dash,
           y \div 1000, (y \div 100) % 10, (y \div 10) % 10, y % 10 >>

\* datetime.date.isoformat(): YYYY-MM-DD
isoformat(date) ==
    LET y == date[1]
        m == date[2]
        d == date[3]
    IN  << y \div 1000, (y \div 100) % 10, (y \div 10) % 10, y % 10, Dash,
           m \div 10, m % 10, Dash, d \div 10, d % 10 >>

\* the shape YYYY-MM-DD that datetime.date.fromisoformat() reads
IsIsoShape(s) ==
    /\ Len(s) = 10
    /\ s[5] = Dash /\ s[8] = Dash
    /\ \A k \in {1, 2, 3, 4, 6, 7, 9, 10} : IsDigit(s[k])

IsoFields(s) ==
    << 1000 * s[1] + 100 * s[2] + 10 * s[3] + s[4], 10 * s[6] + s[7], 10 * s[9] + s[10] >>

\* fromisoformat raises ValueError unless the text is a calendar date
IsIsoDate(s) ==
    /\ IsIsoShape(s)
    /\ IsDate(IsoFields(s)[1], IsoFields(s)[2], IsoFields(s)[3])

fromisoformat(s) == IsoFields(s)

\* the shape MM-DD-YYYY of datetime.strptime(date_str, '%m-%d-%Y')
IsInputShape(s) ==
    /\ Len(s) = 10
    /\ s[3] = Dash /\ s[6] = Dash
    /\ \A k \in {1, 2, 4, 5, 7, 8, 9, 10} : IsDigit(s[k])

InputFields(s) ==
    << 1000 * s[7] + 100 * s[8] + 10 * s[9] + s[10], 10 * s[1] + s[2], 10 * s[4] + s[5] >>

IsInputDate(s) ==
    /\ IsInputShape(s)
    /\ IsDate(InputFields(s)[1], InputFields(s)[2], InputFields(s)[3])

strptime(s) == InputFields(s)

(* ---------------------------------------------------------------- record *)

\* FinancialRecord(date, description, amount, due_date, record_type)
FinancialRecord(date, description, amount, due_date, record_type) ==
    [ date |-> date, description |-> description, amount |-> amount,
      due_date |-> due_date, record_type |-> record_type ]

to_dict(r) ==
    [ date |-> isoformat(r.date), description |-> r.description, amount |-> r.amount,
      due_date |-> r.due_date, record_type |-> r.record_type ]

\* dict.get(key, default)
Get(data, key, default) == IF key \in DOMAIN data THEN data[key] ELSE default

\* the exception from_dict ends with on this dict, "none" when it returns
from_dict_error(data) ==
    IF "date" \notin DOMAIN data THEN "KeyError"
    ELSE IF ~IsIsoDate(data["date"]) THEN "ValueError"
    ELSE IF "description" \notin DOMAIN data THEN "KeyError"
    ELSE IF "amount" \notin DOMAIN data THEN "KeyError"
    ELSE "none"

from_dict(data) ==
    FinancialRecord(fromisoformat(data["date"]), data["description"], data["amount"],
                    Get(data, "due_date", None), Get(data, "record_type", "expense"))

(* ----------------------------------------------------------- input sets *)

Jan10 == <<2, 0, 2, 4, Dash, 0, 1, Dash, 1, 0>>
May01 == <<2, 0, 2, 4, Dash, 0, 5, Dash, 0, 1>>
\* not a calendar date, and not in ISO order
NotADate == <<1, 3, Dash, 0, 1, Dash, 2, 0, 2, 4>>

\* what the user types at the prompts of add_plan_interactive
TypeInputs == {"plan", "allowance", "saving"}
DateInputs == { <<0, 1, Dash, 1, 0, Dash, 2, 0, 2, 4>>, Jan10 }
DescriptionInputs == {"", "rent"}
AmountInputs == {0, 40}
DueInputs == { <<>>, May01 }

\* what the user types at a numbered prompt: a number, or text that int() rejects
NotANumber == -99
IndexInputs(list) == (0 .. Len(list) + 1) \cup {NotANumber}

\* the dicts a backing file written by an earlier version or by hand may hold
\* written before due_date and record_type existed; its amount is the least the file format allows
LegacyItem == [ date |-> Jan10, description |-> "old", amount |-> 0 ]
TransferItem ==
    [ date |-> May01, description |-> "move", amount |-> 7, due_date |-> Jan10,
      record_type |-> "transfer" ]
BadDateItem ==
    [ date |-> NotADate, description |-> "rent", amount |-> 40, due_date |-> None,
      record_type |-> "expense" ]
NoAmountItem ==
    [ date |-> Jan10, description |-> "rent", due_date |-> None, record_type |-> "expense" ]
NoDescriptionItem ==
    [ date |-> Jan10, amount |-> 40, due_date |-> None, record_type |-> "expense" ]

FileItems ==
    { LegacyItem, TransferItem, BadDateItem, NoAmountItem, NoDescriptionItem }

SeqsUpTo(S, n) == UNION { [1..k -> S] : k \in 0..n }

(* ---------------------------------------------------------- backing file *)

NoData == [ k \in {} |-> <<>> ]

\* os.path.exists(self.data_file) is false
MissingFile == [ kind |-> "missing", data |-> NoData ]
\* text that json.load cannot parse: hand-edited, or cut short by a failed write
GarbageFile == [ kind |-> "garbage", data |-> NoData ]
\* valid JSON whose top level is a list, not an object
ArrayFile == [ kind |-> "array", data |-> NoData ]
ObjectFile(data) == [ kind |-> "object", data |-> data ]

InitialFiles ==
    { MissingFile, GarbageFile, ArrayFile, ObjectFile(NoData) }
    \cup { ObjectFile([ plans |-> p, trash_bin |-> t ]) :
             <<p, t>> \in { pt \in SeqsUpTo(FileItems, MaxFileItems)
                                     \X SeqsUpTo(FileItems, MaxFileItems) :
                            Len(pt[1]) + Len(pt[2]) <= MaxFileItems } }

\* the files of the working directory other than the backing file: none
NoFiles == [ path \in {} |-> MissingFile ]

\* [from_dict(item) for item in items]: the exception of the first item that has one
list_error(items) ==
    IF \A k \in 1..Len(items) : from_dict_error(items[k]) = "none" THEN "none"
    ELSE LET first == CHOOSE k \in 1..Len(items) :
                         /\ from_dict_error(items[k]) # "none"
                         /\ \A j \in 1..(k - 1) : from_dict_error(items[j]) = "none"
         IN  from_dict_error(items[first])

from_dict_list(items) == [ k \in 1..Len(items) |-> from_dict(items[k]) ]

to_dict_list(records) == [ k \in 1..Len(records) |-> to_dict(records[k]) ]

\* what the except clause of load_data, save_data lets through to the caller
except_Exception(error) == "none"

\* load_data without "if os.path.exists(self.data_file)": open() raises on a missing file
load_data_without_exists(self_plans, self_trash_bin, f) ==
    IF f.kind = "missing" THEN
        [ plans |-> self_plans, trash_bin |-> self_trash_bin, error |-> "FileNotFoundError" ]
    ELSE IF f.kind = "garbage" THEN
        [ plans |-> self_plans, trash_bin |-> self_trash_bin, error |-> "JSONDecodeError" ]
    ELSE IF f.kind = "array" THEN
        [ plans |-> self_plans, trash_bin |-> self_trash_bin, error |-> "AttributeError" ]
    ELSE LET p == Get(f.data, "plans", <<>>)
             t == Get(f.data, "trash_bin", <<>>)
         IN  IF list_error(p) # "none" THEN
                 [ plans |-> self_plans, trash_bin |-> self_trash_bin,
                   error |-> list_error(p) ]
             ELSE IF list_error(t) # "none" THEN
                 [ plans |-> from_dict_list(p), trash_bin |-> self_trash_bin,
                   error |-> list_error(t) ]
             ELSE
                 [ plans |-> from_dict_list(p), trash_bin |-> from_dict_list(t),
                   error |-> "none" ]

\* load_data on a store whose lists are self_plans, self_trash_bin
load_data(self_plans, self_trash_bin, f) ==
    IF f.kind = "missing" THEN
        [ plans |-> self_plans, trash_bin |-> self_trash_bin, error |-> "none" ]
    ELSE IF f.kind = "garbage" THEN
        [ plans |-> self_plans, trash_bin |-> self_trash_bin, error |-> "JSONDecodeError" ]
    ELSE IF f.kind = "array" THEN
        [ plans |-> self_plans, trash_bin |-> self_trash_bin, error |-> "AttributeError" ]
    ELSE LET p == Get(f.data, "plans", <<>>)
             t == Get(f.data, "trash_bin", <<>>)
         IN  IF list_error(p) # "none" THEN
                 [ plans |-> self_plans, trash_bin |-> self_trash_bin,
                   error |-> list_error(p) ]
             ELSE IF list_error(t) # "none" THEN
                 [ plans |-> from_dict_list(p), trash_bin |-> self_trash_bin,
                   error |-> list_error(t) ]
             ELSE
                 [ plans |-> from_dict_list(p), trash_bin |-> from_dict_list(t),
                   error |-> "none" ]

\* how the write of save_data can end: done, open() refused, json.dump cut short
WriteOutcomes == {"ok", "open_failed", "dump_failed"}

\* the ways the next write can end, given the failed writes so far
Writes(failed) == IF failed < MaxFaults THEN WriteOutcomes ELSE {"ok"}

Failed(failed, io) == IF io = "ok" THEN failed ELSE failed + 1

\* 'trash_bin' written from self.plans
save_data_plans_twice(self_plans, self_trash_bin, f, io) ==
    IF io = "ok" THEN
        [ file |-> ObjectFile([ plans |-> to_dict_list(self_plans),
                                trash_bin |-> to_dict_list(self_plans) ]),
          error |-> "none" ]
    ELSE IF io = "open_failed" THEN [ file |-> f, error |-> "OSError" ]
    ELSE [ file |-> GarbageFile, error |-> "OSError" ]

\* the backing file after save_data, and the exception its try block ended with
save_data(self_plans, self_trash_bin, f, io) ==
    IF io = "ok" THEN
        [ file |-> ObjectFile([ plans |-> to_dict_list(self_plans),
                                trash_bin |-> to_dict_list(self_trash_bin) ]),
          error |-> "none" ]
    ELSE IF io = "open_failed" THEN [ file |-> f, error |-> "OSError" ]
    ELSE [ file |-> GarbageFile, error |-> "OSError" ]

(* ------------------------------------------------------------- reporting *)

RECURSIVE SumAmounts(_, _)
\* sum(plan.amount for plan in records if plan.record_type == kind)
SumAmounts(records, kind) ==
    IF records = <<>> THEN 0
    ELSE (IF Head(records).record_type = kind THEN Head(records).amount ELSE 0)
         + SumAmounts(Tail(records), kind)

calculate_balance(self_plans) ==
    LET total_income == SumAmounts(self_plans, "income")
        total_expenses == SumAmounts(self_plans, "expense")
    IN  [ income |-> total_income, expenses |-> total_expenses,
          net_balance |-> total_income - total_expenses ]

(* ------------------------------------------------------------ list steps *)

\* pop() with the index forgotten: the last element goes
PopLast(list, index) == SubSeq(list, 1, Len(list) - 1)

\* list.pop(index), index counted from 0: the list that is left
Pop(list, index) == SubSeq(list, 1, index) \o SubSeq(list, index + 2, Len(list))

\* pop(0) for pop(index): the first element is returned
PoppedFirst(list, index) == list[1]

\* the element list.pop(index) returns
Popped(list, index) == list[index + 1]

\* the other list put in front
ExtendFront(list, other) == other \o list

\* list.extend(other): the list afterwards
Extend(list, other) == list \o other

\* del list[1:] for list.clear(): the first element stays
ClearTail(list) == IF list = <<>> THEN <<>> ELSE <<Head(list)>>

\* list.clear(): the list afterwards
Clear(list) == <<>>

\* the cancel test left out
IsCancelNever(index) == FALSE

\* "if index == -1": the user typed 0
IsCancel(index) == index = -1

\* "if 0 <= index < len(list)"
InRange(index, list) == 0 <= index /\ index < Len(list)

(* ------------------------------------------------------------------ state *)

\* what the operation just performed on the store was and how it ended, as its
\* caller and the console saw it; a step through the menus reports nothing
Report(op, arg, outcome, wrote, error) ==
    [ op |-> op, arg |-> arg, outcome |-> outcome, wrote |-> wrote, error |-> error,
      raised |-> except_Exception(error) ]

NoReport == Report("none", 0, "none", "none", "none")

\* the due-date listing: not asked for yet, or the expenses it printed, in order
NotShown == [ done |-> FALSE, value |-> <<>> ]
Shown(lines) == [ done |-> TRUE, value |-> lines ]

\* a function of finance/summary.py that has not been called
NotComputed == [ done |-> FALSE, value |-> 0 ]
Computed(value) == [ done |-> TRUE, value |-> value ]

\* History of the last two changes of the store, kept for the delete/restore pair.
\* "deleted": the last change was a delete at position index (from 0) of the
\* active list `plans`.  "restored": that delete was followed, with no change
\* between, by a restore of the last record of the trash bin.  "off" otherwise.
Disarmed == [ phase |-> "off", plans |-> <<>>, index |-> 0 ]
Deleted(before, index) == [ phase |-> "deleted", plans |-> before, index |-> index ]
Restored(u) == [ phase |-> "restored", plans |-> u.plans, index |-> u.index ]
\* a step through the menus keeps a pending delete and forgets a finished pair
Carried(u) == IF u.phase = "deleted" THEN u ELSE Disarmed

Init ==
    /\ plans = <<>>
    /\ trash_bin = <<>>
    /\ file \in InitialFiles
    /\ pc = "start"
    /\ last = NoReport
    /\ undo = Disarmed
    /\ faults = 0
    /\ cwd_files = NoFiles
    /\ shown = NotShown
    /\ record_dicts = <<>>
    /\ net = NotComputed
    /\ totals = NotComputed

(* ---------------------------------------------------------------- actions *)

\* main(): tracker = FinanceTracker()
Start ==
    /\ pc = "start"
    /\ LET r == load_data(<<>>, <<>>, file)
       IN  /\ plans' = r.plans
           /\ trash_bin' = r.trash_bin
           /\ last' = Report("load", 0, "done", "none", r.error)
    /\ pc' = "main"
    /\ undo' = Disarmed
    /\ UNCHANGED <<file, faults>>
    /\ UNCHANGED side

\* the record appended twice
add_record_twice(record, io) ==
    LET appended == Append(Append(plans, record), record)
        w == save_data(appended, trash_bin, file, io)
    IN  /\ plans' = appended
        /\ file' = w.file
        /\ faults' = Failed(faults, io)
        /\ last' = Report("add", 0, "done", io, w.error)
        /\ undo' = Disarmed
        /\ UNCHANGED trash_bin

\* add_record(record)
add_record(record, io) ==
    LET appended == Append(plans, record)
        w == save_data(appended, trash_bin, file, io)
    IN  /\ plans' = appended
        /\ file' = w.file
        /\ faults' = Failed(faults, io)
        /\ last' = Report("add", 0, "done", io, w.error)
        /\ undo' = Disarmed
        /\ UNCHANGED trash_bin

\* main menu 1: add_plan_interactive(); each prompt repeats until its input is accepted
AddPlanInteractive ==
    /\ pc = "main"
    /\ Len(plans) + Len(trash_bin) < MaxRecords
    /\ \E typed \in TypeInputs, date_str \in DateInputs, description \in DescriptionInputs :
          /\ typed \in {"plan", "allowance"}
          /\ IsInputDate(date_str)
          /\ IF description = "" THEN
                 /\ last' = Report("add", 0, "rejected", "none", "none")
                 /\ UNCHANGED <<plans, trash_bin, file, undo, faults>>
             ELSE \E amount \in AmountInputs, due \in DueInputs, io \in Writes(faults) :
                 /\ amount > 0
                 /\ LET record_type == IF typed = "plan" THEN "expense" ELSE "income"
                        due_date == IF record_type = "expense" /\ due # <<>> THEN due ELSE None
                    IN  add_record(FinancialRecord(strptime(date_str), description, amount,
                                                   due_date, record_type), io)
    /\ UNCHANGED pc
    /\ UNCHANGED side

\* main menu 3: display_balance_report() prints calculate_balance() and changes nothing
DisplayBalanceReport ==
    /\ pc = "main"
    /\ calculate_balance(plans).net_balance \in Int
    /\ UNCHANGED vars

\* main menu 6: settings_menu(tracker)
OpenSettings ==
    /\ pc = "main"
    /\ pc' = "settings"
    /\ last' = NoReport
    /\ undo' = Carried(undo)
    /\ UNCHANGED <<plans, trash_bin, file, faults>>
    /\ UNCHANGED side

\* settings menu 3
LeaveSettings ==
    /\ pc = "settings"
    /\ pc' = "main"
    /\ last' = NoReport
    /\ undo' = Carried(undo)
    /\ UNCHANGED <<plans, trash_bin, file, faults>>
    /\ UNCHANGED side

\* main menu 7: the process ends; the next run starts from the backing file
Exit ==
    /\ pc = "main"
    /\ pc' = "start"
    /\ plans' = <<>>
    /\ trash_bin' = <<>>
    /\ last' = NoReport
    /\ undo' = Disarmed
    /\ UNCHANGED <<file, faults>>
    /\ UNCHANGED side

\* a prompt from which the next accepted input mutates the store and calls save_data
SaveCanStart ==
    \/ pc = "main"
    \/ pc = "delete" /\ plans # <<>>
    \/ pc = "restore" /\ trash_bin # <<>>
    \/ pc = "trash"

\* the process is killed inside save_data, after open(self.data_file, 'w') has
\* truncated the file and before json.dump and the close of the file have written
\* all of the text: the file holds a proper prefix of the JSON text, the lists in
\* memory are gone, and the next thing to happen is a new run
KilledDuringSave ==
    /\ SaveCanStart
    /\ faults < MaxFaults
    /\ file' = GarbageFile
    /\ plans' = <<>>
    /\ trash_bin' = <<>>
    /\ pc' = "start"
    /\ last' = Report("save", 0, "killed", "none", "none")
    /\ undo' = Disarmed
    /\ faults' = faults + 1
    /\ UNCHANGED side

\* settings menu 2: delete_plan() up to its prompt
DeletePlanOpen ==
    /\ pc = "settings"
    /\ pc' = IF plans = <<>> THEN "settings" ELSE "delete"
    /\ last' = NoReport
    /\ undo' = Carried(undo)
    /\ UNCHANGED <<plans, trash_bin, file, faults>>
    /\ UNCHANGED side

\* one answer at the prompt of delete_plan()
DeletePlanInput ==
    /\ pc = "delete"
    /\ \E typed \in IndexInputs(plans) :
          IF typed = NotANumber THEN
              /\ last' = Report("delete", typed, "not_a_number", "none", "none")
              /\ UNCHANGED <<plans, trash_bin, file, pc, undo, faults>>
          ELSE LET index == typed - 1
               IN  IF IsCancel(index) THEN
                       /\ last' = Report("delete", typed, "cancelled", "none", "none")
                       /\ pc' = "settings"
                       /\ UNCHANGED <<plans, trash_bin, file, undo, faults>>
                   ELSE IF InRange(index, plans) THEN
                       \E io \in Writes(faults) :
                          LET left == Pop(plans, index)
                              binned == Append(trash_bin, Popped(plans, index))
                              w == save_data(left, binned, file, io)
                          IN  /\ plans' = left
                              /\ trash_bin' = binned
                              /\ file' = w.file
                              /\ faults' = Failed(faults, io)
                              /\ last' = Report("delete", typed, "done", io, w.error)
                              /\ undo' = Deleted(plans, index)
                              /\ pc' = "settings"
                   ELSE
                       /\ last' = Report("delete", typed, "invalid", "none", "none")
                       /\ UNCHANGED <<plans, trash_bin, file, pc, undo, faults>>
    /\ UNCHANGED side

\* settings menu 1: view_trash_bin() up to its menu; with nothing in the trash bin
\* it says so and returns, and none of its options is offered
ViewTrashBin ==
    /\ pc = "settings"
    /\ pc' = IF trash_bin = <<>> THEN "settings" ELSE "trash"
    /\ last' = IF trash_bin = <<>> THEN Report("view_trash_bin", 0, "empty", "none", "none")
               ELSE NoReport
    /\ undo' = Carried(undo)
    /\ UNCHANGED <<plans, trash_bin, file, faults>>
    /\ UNCHANGED side

\* trash menu 1: restore_specific_plan() up to its prompt
RestoreSpecificOpen ==
    /\ pc = "trash"
    /\ pc' = IF trash_bin = <<>> THEN "settings" ELSE "restore"
    /\ last' = NoReport
    /\ undo' = Carried(undo)
    /\ UNCHANGED <<plans, trash_bin, file, faults>>
    /\ UNCHANGED side

\* one answer at the prompt of restore_specific_plan()
RestoreSpecificInput ==
    /\ pc = "restore"
    /\ \E typed \in IndexInputs(trash_bin) :
          IF typed = NotANumber THEN
              /\ last' = Report("restore", typed, "not_a_number", "none", "none")
              /\ UNCHANGED <<plans, trash_bin, file, pc, undo, faults>>
          ELSE LET index == typed - 1
               IN  IF IsCancel(index) THEN
                       /\ last' = Report("restore", typed, "cancelled", "none", "none")
                       /\ pc' = "settings"
                       /\ UNCHANGED <<plans, trash_bin, file, undo, faults>>
                   ELSE IF InRange(index, trash_bin) THEN
                       \E io \in Writes(faults) :
                          LET left == Pop(trash_bin, index)
                              back == Append(plans, Popped(trash_bin, index))
                              w == save_data(back, left, file, io)
                          IN  /\ plans' = back
                              /\ trash_bin' = left
                              /\ file' = w.file
                              /\ faults' = Failed(faults, io)
                              /\ last' = Report("restore", typed, "done", io, w.error)
                              /\ undo' = IF undo.phase = "deleted" /\ typed = Len(trash_bin)
                                          THEN Restored(undo) ELSE Disarmed
                              /\ pc' = "settings"
                   ELSE
                       /\ last' = Report("restore", typed, "invalid", "none", "none")
                       /\ UNCHANGED <<plans, trash_bin, file, pc, undo, faults>>
    /\ UNCHANGED side

\* trash menu 2: restore all
RestoreAll ==
    /\ pc = "trash"
    /\ \E io \in Writes(faults) :
          LET extended == Extend(plans, trash_bin)
              emptied == Clear(trash_bin)
              w == save_data(extended, emptied, file, io)
          IN  /\ plans' = extended
              /\ trash_bin' = emptied
              /\ file' = w.file
              /\ faults' = Failed(faults, io)
              /\ last' = Report("restore_all", 0, "done", io, w.error)
    /\ undo' = Disarmed
    /\ pc' = "settings"
    /\ UNCHANGED side

\* trash menu 3: empty the trash bin, after the question
EmptyTrash ==
    /\ pc = "trash"
    /\ \E confirmation \in {"yes", "y", "no"} :
          IF confirmation \in {"yes", "y"} THEN
              \E io \in Writes(faults) :
                 LET emptied == Clear(trash_bin)
                     w == save_data(plans, emptied, file, io)
                 IN  /\ trash_bin' = emptied
                     /\ file' = w.file
                     /\ faults' = Failed(faults, io)
                     /\ last' = Report("empty_trash", 0, "done", io, w.error)
                     /\ undo' = Disarmed
                     /\ UNCHANGED plans
          ELSE
              /\ last' = Report("empty_trash", 0, "declined", "none", "none")
              /\ UNCHANGED <<plans, trash_bin, file, undo, faults>>
    /\ pc' = "settings"
    /\ UNCHANGED side

\* trash menu 4
TrashBack ==
    /\ pc = "trash"
    /\ pc' = "settings"
    /\ last' = NoReport
    /\ undo' = Carried(undo)
    /\ UNCHANGED <<plans, trash_bin, file, faults>>
    /\ UNCHANGED side

Next ==
    \/ Start
    \/ AddPlanInteractive
    \/ DisplayBalanceReport
    \/ OpenSettings
    \/ LeaveSettings
    \/ Exit
    \/ DeletePlanOpen
    \/ DeletePlanInput
    \/ ViewTrashBin
    \/ RestoreSpecificOpen
    \/ RestoreSpecificInput
    \/ RestoreAll
    \/ EmptyTrash
    \/ TrashBack
    \/ KilledDuringSave

Spec == Init /\ [][Next]_vars

(* ------------------------------------------------------ finance/summary.py *)

\* dict-like records as the callers of finance/summary.py may pass them
SummaryItems ==
    { [ amount |-> 100, record_type |-> "income" ],
      [ amount |-> 40, record_type |-> "expense" ],
      [ amount |-> 5, record_type |-> "transfer" ],
      [ amount |-> 7 ],
      [ record_type |-> "income" ] }

\* the first branch is taken whatever is missing
IsIncomeOrMissing(r) == "record_type" \notin DOMAIN r \/ r["record_type"] = "income"

\* r.get('record_type') == 'income'
IsIncome(r) == "record_type" \in DOMAIN r /\ r["record_type"] = "income"

RECURSIVE net_total_from(_, _, _)
\* the loop of net_total from its k-th record on, net being the sum so far
net_total_from(records, k, sum) ==
    IF k > Len(records) THEN sum
    ELSE LET r == records[k]
             amt == Get(r, "amount", 0)
         IN  net_total_from(records, k + 1, IF IsIncome(r) THEN sum + amt ELSE sum - amt)

net_total(records) == net_total_from(records, 1, 0)

\* the amount stored, not added
Overwritten(sums, t, amt) == amt

\* totals.get(t, 0.0) + amt
Accumulated(sums, t, amt) == Get(sums, t, 0) + amt

RECURSIVE total_by_type_from(_, _, _)
\* the loop of total_by_type from its k-th record on, sums being the dict so far
total_by_type_from(records, k, sums) ==
    IF k > Len(records) THEN sums
    ELSE LET r == records[k]
             t == Get(r, "record_type", "expense")
             amt == Get(r, "amount", 0)
         IN  total_by_type_from(records, k + 1,
                 [ key \in DOMAIN sums \cup {t} |->
                     IF key = t THEN Accumulated(sums, t, amt) ELSE sums[key] ])

total_by_type(records) == total_by_type_from(records, 1, NoData)

\* the module imported on its own: no tracker runs, a caller holds a list of records
SummaryInit ==
    /\ plans = <<>>
    /\ trash_bin = <<>>
    /\ file = MissingFile
    /\ pc = "summary"
    /\ last = NoReport
    /\ undo = Disarmed
    /\ faults = 0
    /\ cwd_files = NoFiles
    /\ shown = NotShown
    /\ record_dicts \in SeqsUpTo(SummaryItems, MaxRecords)
    /\ net = NotComputed
    /\ totals = NotComputed

CallNetTotal ==
    /\ pc = "summary"
    /\ ~net.done
    /\ net' = Computed(net_total(record_dicts))
    /\ UNCHANGED <<plans, trash_bin, file, pc, last, undo, faults, cwd_files, shown,
                   record_dicts, totals>>

CallTotalByType ==
    /\ pc = "summary"
    /\ ~totals.done
    /\ totals' = Computed(total_by_type(record_dicts))
    /\ UNCHANGED <<plans, trash_bin, file, pc, last, undo, faults, cwd_files, shown,
                   record_dicts, net>>

SummaryNext ==
    \/ CallNetTotal
    \/ CallTotalByType

SpecSummary == SummaryInit /\ [][SummaryNext]_vars


(* ------------------------------------------------------ upcoming due dates *)

\* ord(c) of a character of a date text
ord(c) == IF c = Dash THEN 45 ELSE 48 + c

RECURSIVE StrLess(_, _)
\* a < b for two texts, as Python compares str
StrLess(a, b) ==
    IF b = <<>> THEN FALSE
    ELSE IF a = <<>> THEN TRUE
    ELSE IF Head(a) # Head(b) THEN ord(Head(a)) < ord(Head(b))
    ELSE StrLess(Tail(a), Tail(b))

\* "if plan.due_date": neither None nor the empty text
Truthy(due_date) == due_date # None /\ due_date # <<>>

\* plan.record_type == "expense" and plan.due_date
IsUpcoming(plan) == plan.record_type = "expense" /\ Truthy(plan.due_date)

\* x put in front of the keys equal to its own
InsertBeforeEquals(list, x) ==
    LET k == Cardinality({ j \in 1..Len(list) : StrLess(list[j].due_date, x.due_date) })
    IN  SubSeq(list, 1, k) \o <<x>> \o SubSeq(list, k + 1, Len(list))

\* x put into a list sorted by due_date, behind every element whose key is not greater
InsertByDue(list, x) ==
    LET k == Cardinality({ j \in 1..Len(list) : ~StrLess(x.due_date, list[j].due_date) })
    IN  SubSeq(list, 1, k) \o <<x>> \o SubSeq(list, k + 1, Len(list))

RECURSIVE sorted_by_due(_)
\* sorted(list, key=lambda x: x.due_date): stable, elements taken left to right
sorted_by_due(list) ==
    IF list = <<>> THEN <<>>
    ELSE InsertByDue(sorted_by_due(SubSeq(list, 1, Len(list) - 1)), list[Len(list)])

\* the expenses view_upcoming_due_dates prints, in the order of its lines
upcoming_due(self_plans) == sorted_by_due(SelectSeq(self_plans, IsUpcoming))

Expense(description, due_date) ==
    FinancialRecord(<<2024, 1, 10>>, description, 40, due_date, "expense")
Income(description, due_date) ==
    FinancialRecord(<<2024, 1, 10>>, description, 100, due_date, "income")

\* records as add and load can put them in the active list: expenses with equal,
\* different, short, empty and no due text, incomes with and without one
DueRecords ==
    { Expense("rent", May01), Expense("gym", May01), Expense("pay", Jan10),
      Expense("toll", <<1, Dash, 1>>), Expense("fee", <<1, 1>>),
      Expense("food", None), Expense("note", <<>>),
      Income("gift", None), Income("loan", Jan10) }

\* the tracker at its main menu, the active list as loaded from the backing file
DueInit ==
    /\ plans \in SeqsUpTo(DueRecords, MaxRecords)
    /\ trash_bin = <<>>
    /\ file = ObjectFile([ plans |-> to_dict_list(plans), trash_bin |-> <<>> ])
    /\ pc = "main"
    /\ last = NoReport
    /\ undo = Disarmed
    /\ faults = 0
    /\ cwd_files = NoFiles
    /\ shown = NotShown
    /\ record_dicts = <<>>
    /\ net = NotComputed
    /\ totals = NotComputed

\* main menu 4: view_upcoming_due_dates()
ViewUpcomingDueDates ==
    /\ pc = "main"
    /\ shown' = Shown(upcoming_due(plans))
    /\ UNCHANGED <<plans, trash_bin, file, pc, last, undo, faults, cwd_files,
                   record_dicts, net, totals>>

DueNext == ViewUpcomingDueDates

SpecDue == DueInit /\ [][DueNext]_vars


(* ---------------------------------------------------------------- export *)

\* self.data_file as main() constructs the tracker: "financial_data.json"
data_file == [ stem |-> "financial_data", day |-> <<>> ]

\* the export written over the backing file
export_filename_of_store(today) == data_file

\* f"financial_data_export_{datetime.date.today()}.json"
export_filename(today) == [ stem |-> "financial_data_export_", day |-> isoformat(today) ]

\* the days on which the program runs
Days == { <<2024, 1, 10>>, <<2024, 5, 1>> }

\* the working directory after `content` is written to the file `path`
Written(files, path, content) ==
    [ q \in DOMAIN files \cup {path} |-> IF q = path THEN content ELSE files[q] ]

\* main menu 5: export_data_to_file()
ExportDataToFile ==
    /\ pc = "main"
    /\ \E today \in Days, io \in Writes(faults) :
          LET file_path == export_filename(today)
              w == save_data(plans, trash_bin, MissingFile, io)
          IN  /\ IF io = "open_failed" THEN UNCHANGED <<file, cwd_files>>
                 ELSE IF file_path = data_file THEN
                     /\ file' = w.file
                     /\ UNCHANGED cwd_files
                 ELSE
                     /\ cwd_files' = Written(cwd_files, file_path, w.file)
                     /\ UNCHANGED file
              /\ faults' = Failed(faults, io)
              /\ last' = Report("export", 0, "done", io, w.error)
    /\ undo' = Carried(undo)
    /\ UNCHANGED <<plans, trash_bin, pc, shown, record_dicts, net, totals>>

\* a first run without a backing file, or with one an older version wrote
ExportInit ==
    /\ plans = <<>>
    /\ trash_bin = <<>>
    /\ file \in { MissingFile,
                  ObjectFile([ plans |-> <<TransferItem, LegacyItem>>,
                               trash_bin |-> <<LegacyItem>> ]) }
    /\ pc = "start"
    /\ last = NoReport
    /\ undo = Disarmed
    /\ faults = 0
    /\ cwd_files = NoFiles
    /\ shown = NotShown
    /\ record_dicts = <<>>
    /\ net = NotComputed
    /\ totals = NotComputed

ExportNext ==
    \/ Start
    \/ OpenSettings
    \/ LeaveSettings
    \/ DeletePlanOpen
    \/ DeletePlanInput
    \/ ExportDataToFile
    \/ Exit

SpecExport == ExportInit /\ [][ExportNext]_vars

(* ----------------------------------------------------------------- claims *)

Mutators == {"add", "delete", "restore", "restore_all", "empty_trash"}

\* list `after` is list `before` without its element at position i (from 1)
IsWithout(after, before, i) ==
    /\ Len(after) = Len(before) - 1
    /\ \A k \in 1..(i - 1) : after[k] = before[k]
    /\ \A k \in i..Len(after) : after[k] = before[k + 1]

\* list `after` is list `before` with record r as its new last element
IsWithLast(after, before, r) ==
    /\ Len(after) = Len(before) + 1
    /\ \A k \in 1..Len(before) : after[k] = before[k]
    /\ after[Len(after)] = r

\* the backing file holds the serialized lists, element for element and in order
FileHolds(f, active, trash) ==
    /\ f.kind = "object"
    /\ DOMAIN f.data = {"plans", "trash_bin"}
    /\ Len(f.data["plans"]) = Len(active)
    /\ Len(f.data["trash_bin"]) = Len(trash)
    /\ \A k \in 1..Len(active) : f.data["plans"][k] = to_dict(active[k])
    /\ \A k \in 1..Len(trash) : f.data["trash_bin"][k] = to_dict(trash[k])

\* C1 as stated: delete(i) followed immediately by restore(len(trash)) leaves
\* active with its pre-delete content in its pre-delete order.
C1_DeleteRestoreIdentity ==
    undo.phase = "restored" => plans = undo.plans

\* C1 amended: delete(i) followed immediately by restore(len(trash)) leaves
\* active with its pre-delete content, the records other than the deleted one in
\* their pre-delete relative order and the deleted record as the last element
\* (the pre-delete order when i = len(active)).
C1_DeleteRestoreMovesToEnd ==
    undo.phase = "restored" =>
        /\ Len(plans) = Len(undo.plans)
        /\ Len(plans) >= 1
        /\ IsWithout(SubSeq(plans, 1, Len(plans) - 1), undo.plans, undo.index + 1)
        /\ plans[Len(plans)] = undo.plans[undo.index + 1]
        /\ (undo.index + 1 = Len(undo.plans) => plans = undo.plans)

\* a delete of the first of three or more records, undone at once: the order changed
C1_Witness ==
    /\ undo.phase = "restored"
    /\ undo.index = 0
    /\ Len(undo.plans) >= 3
    /\ plans # undo.plans

\* C2: a mutating operation (add, delete, restore, restore_all, empty_trash) that
\* completes with a successful write leaves the backing file holding exactly the
\* serialized active and trash lists, and every step that changes active or trash
\* while the program runs is such an operation and attempts the write in the same
\* step.
C2_EveryMutationWritten ==
    [][ /\ (last'.op \in Mutators /\ last'.outcome = "done" /\ last'.wrote = "ok")
            => FileHolds(file', plans', trash_bin')
        /\ ((plans' # plans \/ trash_bin' # trash_bin) /\ pc # "start" /\ pc' # "start")
            => (last'.op \in Mutators /\ last'.outcome = "done" /\ last'.wrote # "none")
      ]_vars

\* a restore written to the file with records in both lists
C2_Witness ==
    /\ last.op = "restore"
    /\ last.outcome = "done"
    /\ last.wrote = "ok"
    /\ Len(plans) >= 2
    /\ trash_bin # <<>>

\* the records a load of this backing file can deserialize
FileRecords(f) ==
    IF f.kind # "object" THEN {}
    ELSE { from_dict(item) :
             item \in { i \in Range(Get(f.data, "plans", <<>>))
                                \cup Range(Get(f.data, "trash_bin", <<>>)) :
                        from_dict_error(i) = "none" } }

\* the records that can still be had: in active, in trash, or in the file
Retrievable == Range(plans) \cup Range(trash_bin) \cup FileRecords(file)

\* C3: no step drops a record: a record that is retrievable (in active, in trash or
\* in the backing file) stays retrievable, unless it was in trash when empty_trash
\* ran; also when the load at store creation failed and a mutation and save follow.
C3_NoRecordDropped ==
    [][ \A r \in Retrievable :
           \/ r \in Retrievable'
           \/ (last'.op = "empty_trash" /\ last'.outcome = "done" /\ r \in Range(trash_bin))
      ]_vars

\* the backing file exists and a load of it cannot succeed: it does not parse, its
\* top level is no object, or one of its records violates the schema
Unloadable(f) ==
    \/ f.kind \in {"garbage", "array"}
    \/ /\ f.kind = "object"
       /\ \E item \in Range(Get(f.data, "plans", <<>>)) \cup Range(Get(f.data, "trash_bin", <<>>)) :
             \/ {"date", "description", "amount"} \ DOMAIN item # {}
             \/ ~IsIsoDate(item["date"])

\* C4: the load of a backing file that cannot be parsed or holds a record that
\* violates the schema ends in an error outcome (PersistenceError) visible to the
\* caller; it does not complete normally.
C4_LoadFailureRaised ==
    (last.op = "load" /\ Unloadable(file)) => last.raised = "PersistenceError"

\* C5: a failed write of the backing file is reported to the caller of the
\* operation as an error outcome (PersistenceError).
C5_WriteFailureRaised ==
    last.wrote \in {"open_failed", "dump_failed"} => last.raised = "PersistenceError"

\* the list an operation of this name indexes
Indexed(op) == IF op = "delete" THEN plans ELSE trash_bin

\* C6 as stated: delete(0) and delete(len(active)+1), restore(0) and
\* restore(len(trash)+1) fail with IndexOutOfRange and leave active, trash and the
\* backing file unchanged.
C6_ZeroAndPastEndOutOfRange ==
    [][ (last'.op \in {"delete", "restore"} /\ last'.arg \in {0, Len(Indexed(last'.op)) + 1})
            => /\ last'.outcome = "invalid"
               /\ UNCHANGED <<plans, trash_bin, file>>
      ]_vars

\* C6 amended: delete(len(active)+1) and restore(len(trash)+1) are rejected as out
\* of range, delete(0) and restore(0) end the operation as cancelled; all four
\* leave active and trash unchanged, attempt no write and leave the backing file
\* as it was.
C6_PastEndRejectedZeroCancels ==
    [][ (last'.op \in {"delete", "restore"} /\ last'.arg \in {0, Len(Indexed(last'.op)) + 1})
            => /\ last'.outcome = IF last'.arg = 0 THEN "cancelled" ELSE "invalid"
               /\ last'.wrote = "none"
               /\ UNCHANGED <<plans, trash_bin, file>>
      ]_vars

\* a restore past the end of a trash bin of two, rejected
C6_Witness ==
    /\ last.op = "restore"
    /\ last.outcome = "invalid"
    /\ last.arg = Len(trash_bin) + 1
    /\ Len(trash_bin) = 2
    /\ plans # <<>>

\* C7: delete(i) for a valid i leaves active without its i-th element, the others
\* in their order, and trash with that record appended as its last element, no
\* other element of trash moved.
C7_DeleteMovesToTrashEnd ==
    [][ (last'.op = "delete" /\ last'.outcome = "done")
            => /\ last'.arg \in 1..Len(plans)
               /\ IsWithout(plans', plans, last'.arg)
               /\ IsWithLast(trash_bin', trash_bin, plans[last'.arg])
      ]_vars

\* a delete of the first of two active records into a trash bin that held a record
C7_Witness ==
    /\ last.op = "delete"
    /\ last.outcome = "done"
    /\ last.arg = 1
    /\ Len(plans) = 1
    /\ Len(trash_bin) = 2
    /\ trash_bin[1] # trash_bin[2]

\* C8: restore_all leaves active as the former active followed by every record of
\* the former trash in trash order, former elements in place, and trash empty.
C8_RestoreAllAppends ==
    [][ (last'.op = "restore_all" /\ last'.outcome = "done")
            => /\ Len(plans') = Len(plans) + Len(trash_bin)
               /\ \A k \in 1..Len(plans) : plans'[k] = plans[k]
               /\ \A k \in 1..Len(trash_bin) : plans'[Len(plans) + k] = trash_bin[k]
               /\ trash_bin' = <<>>
      ]_vars

\* two different records restored behind one that was active
C8_Witness ==
    /\ last.op = "restore_all"
    /\ last.outcome = "done"
    /\ Len(plans) = 3
    /\ plans[2] # plans[3]
    /\ plans[1] # plans[2]
    /\ trash_bin = <<>>

\* C9: empty_trash leaves trash empty and active as it was; on a store with
\* nothing in trash (an empty store among them), asking for the trash bin, where
\* restore_all and empty_trash are offered, offers neither and leaves active,
\* trash and the backing file as they were.
C9_EmptyTrashClears ==
    [][ /\ (last'.op = "empty_trash" /\ last'.outcome = "done")
            => (trash_bin' = <<>> /\ plans' = plans)
        /\ last'.op = "view_trash_bin"
            => (trash_bin = <<>> /\ pc' # "trash" /\ UNCHANGED <<plans, trash_bin, file>>)
      ]_vars

\* a trash bin emptied beside an active record, and the file written
C9_Witness ==
    /\ last.op = "empty_trash"
    /\ last.outcome = "done"
    /\ trash_bin = <<>>
    /\ plans # <<>>
    /\ file.kind = "object"
    /\ Get(file.data, "trash_bin", <<0>>) = <<>>

RECURSIVE SumOther(_)
\* the sum of the amounts of the records whose kind is not income
SumOther(records) ==
    IF records = <<>> THEN 0
    ELSE (IF Head(records).record_type # "income" THEN Head(records).amount ELSE 0)
         + SumOther(Tail(records))

\* C10: the net balance of the balance report is the sum of the amounts of the
\* active income records minus the sum of the amounts of all other active records,
\* whatever their kind.
C10_NetBalanceCountsEveryOtherKind ==
    calculate_balance(plans).net_balance = SumAmounts(plans, "income") - SumOther(plans)

RECURSIVE SumDicts(_, _)
\* the sum of the amounts (0 where there is none) of the dicts whose kind is in
\* kinds, a dict without kind counted as an expense
SumDicts(dicts, kinds) ==
    IF dicts = <<>> THEN 0
    ELSE (IF Get(Head(dicts), "record_type", "expense") \in kinds
          THEN Get(Head(dicts), "amount", 0) ELSE 0)
         + SumDicts(Tail(dicts), kinds)

\* the kinds of these dicts, a dict without kind counted as an expense
KindsOf(dicts) == { Get(dicts[k], "record_type", "expense") : k \in 1..Len(dicts) }

\* C11: net_total(records) is the sum of the amounts of the income records minus
\* the sum of the amounts of all other records, a missing or unknown kind counted
\* as a cost; it is 0 for the empty sequence and 60 for [income 100, expense 40].
C11_NetTotal ==
    /\ net.done =>
          net.value = SumDicts(record_dicts, {"income"})
                      - SumDicts(record_dicts, KindsOf(record_dicts) \ {"income"})
    /\ net_total(<<>>) = 0
    /\ net_total(<< [ amount |-> 100, record_type |-> "income" ],
                    [ amount |-> 40, record_type |-> "expense" ] >>) = 60

\* net_total called on an income, a record of unknown kind and one of no kind
C11_Witness ==
    /\ net.done
    /\ Len(record_dicts) = 3
    /\ record_dicts[1] = [ amount |-> 100, record_type |-> "income" ]
    /\ record_dicts[2] = [ amount |-> 5, record_type |-> "transfer" ]
    /\ record_dicts[3] = [ amount |-> 7 ]
    /\ net.value = 88

\* C12: total_by_type(records) has exactly the kinds that occur in the input as
\* keys (no kind counted as expense), each with the sum of the amounts of its
\* records; the empty input gives the empty mapping.
C12_TotalsByKind ==
    totals.done =>
        /\ DOMAIN totals.value = KindsOf(record_dicts)
        /\ \A kind \in DOMAIN totals.value :
              totals.value[kind] = SumDicts(record_dicts, {kind})
        /\ (record_dicts = <<>> => totals.value = NoData)

\* total_by_type called on two expenses, one of them without kind, and an income
C12_Witness ==
    /\ totals.done
    /\ Len(record_dicts) = 3
    /\ record_dicts[1] = [ amount |-> 7 ]
    /\ record_dicts[2] = [ amount |-> 100, record_type |-> "income" ]
    /\ record_dicts[3] = [ amount |-> 40, record_type |-> "expense" ]
    /\ DOMAIN totals.value = {"expense", "income"}
    /\ totals.value["expense"] = 47

\* the positions of the active list that hold an expense with a due text
UpcomingAt(active) ==
    { k \in 1..Len(active) :
        /\ active[k].record_type = "expense"
        /\ active[k].due_date \notin {None, <<>>} }

\* `lines` lists the records of `active` at the positions `at`, each position once,
\* ascending by due text, equal due texts in the order of their positions
IsListingOf(lines, active, at) ==
    /\ Len(lines) = Cardinality(at)
    /\ \E f \in [1..Len(lines) -> at] :
          /\ \A j \in 1..Len(lines) : lines[j] = active[f[j]]
          /\ \A i, j \in 1..Len(lines) :
                i < j => \/ StrLess(active[f[i]].due_date, active[f[j]].due_date)
                         \/ /\ active[f[i]].due_date = active[f[j]].due_date
                            /\ f[i] < f[j]

\* C13: the due-date listing holds exactly the active expenses with a non-empty
\* due_date, each once, ascending by due_date compared as text, equal due dates in
\* their order in active; no income and no expense without due_date appears; the
\* operation changes neither active nor trash.
C13_UpcomingDueListing ==
    [][ (shown'.done /\ shown' # shown)
            => /\ IsListingOf(shown'.value, plans, UpcomingAt(plans))
               /\ UNCHANGED <<plans, trash_bin>>
      ]_vars

\* the listing of two expenses due the same day around one due earlier
C13_Witness ==
    /\ shown.done
    /\ plans = << Expense("rent", May01), Expense("pay", Jan10), Expense("gym", May01) >>
    /\ shown.value = << Expense("pay", Jan10), Expense("rent", May01), Expense("gym", May01) >>

\* C14: deserialize(serialize(r)) equals r field for field for every record the
\* store holds, and saving the store and loading the written file into a new store
\* reproduces active and trash element for element and in order.
C14_RoundTrip ==
    /\ \A r \in Range(plans) \cup Range(trash_bin) :
          /\ from_dict_error(to_dict(r)) = "none"
          /\ from_dict(to_dict(r)) = r
    /\ LET written == save_data(plans, trash_bin, file, "ok").file
           loaded == load_data(<<>>, <<>>, written)
       IN  /\ loaded.error = "none"
           /\ loaded.plans = plans
           /\ loaded.trash_bin = trash_bin

\* a new run has loaded the file the run before it saved: one record added there in
\* active, one loaded from an older file in trash
C14_Witness ==
    /\ last.op = "load"
    /\ last.error = "none"
    /\ FileHolds(file, plans, trash_bin)
    /\ \E r \in Range(plans) : r.description = "rent" /\ r.amount = 40
    /\ trash_bin # <<>>

\* C15: in every reachable state every record in active and every record in trash
\* has amount > 0, whether it came from the interactive add or from the load of a
\* backing file.
C15_AmountPositive ==
    \A r \in Range(plans) \cup Range(trash_bin) : r.amount > 0

\* C17: if the process stops at any point during save, the backing file holds either
\* the complete previous snapshot or a complete new snapshot of active and trash; it
\* is never left empty or truncated.
C17_SaveAtomicUnderCrash ==
    [][ (last'.op = "save" /\ last'.outcome = "killed")
            => (file' = file \/ file'.kind = "object")
      ]_vars

\* C16: creating a store when the backing file does not exist yields active == []
\* and trash == [] with no error outcome, and the backing file is not created or
\* written until a mutation (add, delete, restore, restore_all, empty_trash) runs
\* its save.
C16_MissingFileStartsEmpty ==
    [][ /\ (pc = "start" /\ pc' = "main" /\ file.kind = "missing")
            => /\ plans' = <<>>
               /\ trash_bin' = <<>>
               /\ last'.op = "load"
               /\ last'.error = "none"
               /\ file' = file
        /\ (file.kind = "missing" /\ file' # file)
            => \/ last'.op \in Mutators /\ last'.outcome = "done" /\ last'.wrote # "none"
               \/ last'.op = "save"
      ]_vars

\* a store just created from no backing file, the file still absent
C16_Witness ==
    /\ last.op = "load"
    /\ pc = "main"
    /\ file.kind = "missing"
    /\ plans = <<>>
    /\ trash_bin = <<>>

\* how often each record occurs in a list
Occurrences(list) ==
    [ r \in Range(list) |-> Cardinality({ k \in 1..Len(list) : list[k] = r }) ]

\* C18: while the program runs, delete, restore and restore_all leave the multiset
\* of records in active ++ trash unchanged; len(active) + len(trash) grows only in
\* an add, by exactly 1, and shrinks only in an empty_trash, by exactly len(trash);
\* so no operation duplicates a record.
C18_RecordConservation ==
    [][ (pc # "start" /\ pc' # "start") =>
          LET before == Len(plans) + Len(trash_bin)
              after == Len(plans') + Len(trash_bin')
          IN  /\ last'.op \in {"delete", "restore", "restore_all"}
                  => Occurrences(plans' \o trash_bin') = Occurrences(plans \o trash_bin)
              /\ after > before
                  => (last'.op = "add" /\ last'.outcome = "done" /\ after = before + 1)
              /\ after < before
                  => /\ last'.op = "empty_trash"
                     /\ last'.outcome = "done"
                     /\ after = before - Len(trash_bin)
              /\ (last'.op \notin {"add", "empty_trash"} \/ last'.outcome # "done")
                  => Occurrences(plans' \o trash_bin') = Occurrences(plans \o trash_bin)
      ]_vars

\* one of two equal records has been deleted: the same value is in active and in trash
C18_Witness ==
    /\ last.op = "delete"
    /\ last.outcome = "done"
    /\ Range(plans) \cap Range(trash_bin) # {}

\* the store holds the plans and trash_bin lists of the backing file in full
LoadedInFull ==
    /\ file.kind = "object"
    /\ list_error(Get(file.data, "plans", <<>>)) = "none"
    /\ list_error(Get(file.data, "trash_bin", <<>>)) = "none"
    /\ plans = from_dict_list(Get(file.data, "plans", <<>>))
    /\ trash_bin = from_dict_list(Get(file.data, "trash_bin", <<>>))

\* C19: after store creation either active and trash equal the file's plans and
\* trash_bin lists in full, or both are empty; a file with a well-formed plans list
\* and a malformed record in trash_bin never leaves active loaded and trash empty.
C19_LoadAllOrNothing ==
    last.op = "load" => (LoadedInFull \/ (plans = <<>> /\ trash_bin = <<>>))

\* C20: export_data_to_file leaves active, trash and the primary backing file
\* unchanged and, when its write succeeds, leaves a snapshot equal to the current
\* active and trash in a file that is not the backing file, touching no other file;
\* store creation loads from the backing file alone and leaves the exports as they
\* are.
C20_ExportReadOnly ==
    [][ /\ last'.op = "export"
            => /\ UNCHANGED <<plans, trash_bin, file>>
               /\ last'.wrote = "ok"
                    => \E path \in DOMAIN cwd_files' :
                          /\ path # data_file
                          /\ FileHolds(cwd_files'[path], plans, trash_bin)
                          /\ \A q \in DOMAIN cwd_files' \ {path} :
                                q \in DOMAIN cwd_files /\ cwd_files'[q] = cwd_files[q]
        /\ (pc = "start" /\ pc' = "main")
            => /\ plans' = load_data(<<>>, <<>>, file).plans
               /\ trash_bin' = load_data(<<>>, <<>>, file).trash_bin
               /\ UNCHANGED <<file, cwd_files>>
      ]_vars

\* an export of a store with records in both lists, next to a backing file in an
\* older format and an export of an earlier state
C20_Witness ==
    /\ last.op = "export"
    /\ last.wrote = "ok"
    /\ plans # <<>>
    /\ trash_bin # <<>>
    /\ ~FileHolds(file, plans, trash_bin)
    /\ \E path \in DOMAIN cwd_files : FileHolds(cwd_files[path], plans, trash_bin)
    /\ \E path \in DOMAIN cwd_files : ~FileHolds(cwd_files[path], plans, trash_bin)

====
